---- MODULE Spec2Model ----
(***************************************************************************)
(* Dharma-Setu front end: the citation resolver (getProcessedText), the    *)
(* entity classifier and node painter of KnowledgeGraph, and the page      *)
(* state machine of Home (chat, draft, graph snapshot, focus).             *)
(*                                                                         *)
(* Strings of the program are sequences of one-character strings, so that  *)
(* substring tests, case folding and regular-expression matching are       *)
(* computed and not assumed.                                               *)
(***************************************************************************)
EXTENDS Integers, Sequences, FiniteSets, TLC

(***************************************************************************)
(* Bounds of the model.                                                    *)
(***************************************************************************)
MaxTextLen == 3
MaxCitations == 2
MaxLabelTokens == 2
MaxSubmits == 2
MaxDrafts == 2

(***************************************************************************)
(* Characters.                                                             *)
(***************************************************************************)
LowerLetters ==
    <<"a","b","c","d","e","f","g","h","i","j","k","l","m",
      "n","o","p","q","r","s","t","u","v","w","x","y","z">>

UpperLetters ==
    <<"A","B","C","D","E","F","G","H","I","J","K","L","M",
      "N","O","P","Q","R","S","T","U","V","W","X","Y","Z">>

Digits == {"0","1","2","3","4","5","6","7","8","9"}

Range(s) == {s[i] : i \in DOMAIN s}

UpperSet == Range(UpperLetters)

\* the class \w of a JavaScript regular expression
WordChars == Range(LowerLetters) \cup UpperSet \cup Digits \cup {"_"}

IsWordChar(c) == c \in WordChars

LowerOf ==
    [c \in UpperSet |->
        LowerLetters[CHOOSE i \in DOMAIN UpperLetters : UpperLetters[i] = c]]

\* String.prototype.toLowerCase, one character
LowerChar(c) == IF c \in UpperSet THEN LowerOf[c] ELSE c

toLowerCase(s) == [i \in DOMAIN s |-> LowerChar(s[i])]

\* is sub found in s at position p (1-based)
OccursAt(s, sub, p) ==
    /\ p >= 1
    /\ p + Len(sub) - 1 <= Len(s)
    /\ \A i \in 1..Len(sub) : s[p + i - 1] = sub[i]

\* String.prototype.includes
includes(s, sub) == \E p \in 1..(Len(s) + 1) : OccursAt(s, sub, p)

RECURSIVE Flatten(_)
Flatten(ss) == IF ss = <<>> THEN <<>> ELSE Head(ss) \o Flatten(Tail(ss))

\* a value that is not a string: an absent (undefined) field
Undefined == <<"undefined">>

\* JavaScript truthiness of a string-or-undefined value
Truthy(v) == v # Undefined /\ v # <<>>

(***************************************************************************)
(* The citation resolver.                                                  *)
(***************************************************************************)
RegExpSpecials == {".", "*", "+", "?", "^", "$", "{", "}", "(", ")", "|", "[", "]", "\\"}

\* escapeRegExp: string.replace(/[.*+?^${}()|[\]\\]/g, '\\$&')
RECURSIVE escapeRegExp(_)
escapeRegExp(string) ==
    IF string = <<>> THEN <<>>
    ELSE (IF Head(string) \in RegExpSpecials
          THEN <<"\\", Head(string)>>
          ELSE <<Head(string)>>) \o escapeRegExp(Tail(string))

\* the atoms of a pattern source: an escaped character is that character,
\* an unescaped dot is the wildcard, any other character is itself
RECURSIVE ParsePattern(_)
ParsePattern(src) ==
    IF src = <<>> THEN <<>>
    ELSE IF Head(src) = "\\" /\ Len(src) >= 2
         THEN <<[kind |-> "lit", ch |-> src[2]]>> \o ParsePattern(Tail(Tail(src)))
    ELSE IF Head(src) = "."
         THEN <<[kind |-> "any", ch |-> "."]>> \o ParsePattern(Tail(src))
    ELSE <<[kind |-> "lit", ch |-> Head(src)]>> \o ParsePattern(Tail(src))

AtomMatches(atom, c) ==
    IF atom.kind = "any" THEN c \notin {"\n", "\r"} ELSE atom.ch = c

\* is there a word character at position p of s (none outside the string)
IsWordAt(s, p) == p >= 1 /\ p <= Len(s) /\ IsWordChar(s[p])

\* the assertion \b between positions p - 1 and p
WordBoundary(s, p) == IsWordAt(s, p - 1) # IsWordAt(s, p)

\* does \b(atoms)\b match s starting at position p
MatchAt(s, atoms, p) ==
    /\ p + Len(atoms) - 1 <= Len(s)
    /\ \A i \in 1..Len(atoms) : AtomMatches(atoms[i], s[p + i - 1])
    /\ WordBoundary(s, p)
    /\ WordBoundary(s, p + Len(atoms))

\* the least position from i on where test holds, Len(s) + 1 when there is none
FirstFrom(s, i, test(_)) ==
    IF \E q \in i..Len(s) : test(q)
    THEN CHOOSE q \in i..Len(s) : test(q) /\ \A r \in i..(q - 1) : ~test(r)
    ELSE Len(s) + 1

\* the replacement patterns of String.prototype.replace with one group,
\* read from position i of the template: the characters up to the next $
\* stand for themselves
RECURSIVE ExpandFrom(_, _, _, _, _)
ExpandFrom(tmpl, i, matched, before, after) ==
    LET IsDollar(q) == tmpl[q] = "$"
        d == FirstFrom(tmpl, i, IsDollar)
    IN  IF i > Len(tmpl) THEN <<>>
        ELSE IF d > i
             THEN SubSeq(tmpl, i, d - 1) \o ExpandFrom(tmpl, d, matched, before, after)
        ELSE IF i + 1 <= Len(tmpl) /\ tmpl[i + 1] = "$"
             THEN <<"$">> \o ExpandFrom(tmpl, i + 2, matched, before, after)
        ELSE IF i + 1 <= Len(tmpl) /\ tmpl[i + 1] \in {"&", "1"}
             THEN matched \o ExpandFrom(tmpl, i + 2, matched, before, after)
        ELSE IF i + 2 <= Len(tmpl) /\ tmpl[i + 1] = "0" /\ tmpl[i + 2] = "1"
             THEN matched \o ExpandFrom(tmpl, i + 3, matched, before, after)
        ELSE IF i + 1 <= Len(tmpl) /\ tmpl[i + 1] = "`"
             THEN before \o ExpandFrom(tmpl, i + 2, matched, before, after)
        ELSE IF i + 1 <= Len(tmpl) /\ tmpl[i + 1] = "'"
             THEN after \o ExpandFrom(tmpl, i + 2, matched, before, after)
        ELSE <<"$">> \o ExpandFrom(tmpl, i + 1, matched, before, after)

ExpandReplacement(tmpl, matched, before, after) == ExpandFrom(tmpl, 1, matched, before, after)

\* the replacement string `[$1](${uuid})`
LinkTemplate(uuid) == <<"[", "$", "1", "]", "(">> \o uuid \o <<")">>

\* text.replace(regex, template) with the g flag: leftmost matches, each
\* search resuming after the previous match, all found in the original text
RECURSIVE ReplaceFrom(_, _, _, _)
ReplaceFrom(s, atoms, tmpl, p) ==
    LET Matches(q) == MatchAt(s, atoms, q)
        m == FirstFrom(s, p, Matches)
    IN  IF p > Len(s) THEN <<>>
        ELSE IF m > Len(s) THEN SubSeq(s, p, Len(s))
        ELSE SubSeq(s, p, m - 1)
             \o ExpandReplacement(tmpl,
                                  SubSeq(s, m, m + Len(atoms) - 1),
                                  SubSeq(s, 1, m - 1),
                                  SubSeq(s, m + Len(atoms), Len(s)))
             \o ReplaceFrom(s, atoms, tmpl, m + Len(atoms))

\* one iteration of entities.forEach: new RegExp(`\\b(${escapeRegExp(entity)})\\b`, 'g')
ReplaceEntity(s, entity, uuid) ==
    ReplaceFrom(s, ParsePattern(escapeRegExp(entity)), LinkTemplate(uuid), 1)

\* Map.prototype.has / get over the insertion-ordered entries
MapHas(map, k) == \E i \in DOMAIN map : map[i].key = k

MapGet(map, k) == map[CHOOSE i \in DOMAIN map : map[i].key = k].value

MapKeys(map) == [i \in DOMAIN map |-> map[i].key]

\* citations.forEach whose body lacks the !uniqueMap.has test: Map.set on a
\* present key keeps the entry's place and replaces its value
MapInsertLastWins(map, c) ==
    IF ~Truthy(c.entity_name) THEN map
    ELSE IF MapHas(map, c.entity_name)
         THEN [i \in DOMAIN map |->
                 IF map[i].key = c.entity_name
                 THEN [key |-> c.entity_name, value |-> c.uuid]
                 ELSE map[i]]
    ELSE Append(map, [key |-> c.entity_name, value |-> c.uuid])

\* the body of citations.forEach for one citation
MapInsert(map, c) ==
    IF Truthy(c.entity_name) /\ ~MapHas(map, c.entity_name)
    THEN Append(map, [key |-> c.entity_name, value |-> c.uuid])
    ELSE map

RECURSIVE BuildUniqueMap(_, _)
BuildUniqueMap(map, cs) ==
    IF cs = <<>> THEN map ELSE BuildUniqueMap(MapInsert(map, Head(cs)), Tail(cs))

\* an insertion that puts name before the names of its own length
RECURSIVE InsertBeforeTies(_, _)
InsertBeforeTies(sorted, name) ==
    IF sorted = <<>> THEN <<name>>
    ELSE IF Len(Head(sorted)) > Len(name)
         THEN <<Head(sorted)>> \o InsertBeforeTies(Tail(sorted), name)
    ELSE <<name>> \o sorted

\* stable insertion of name into a list ordered by (a, b) => b.length - a.length
RECURSIVE InsertByLength(_, _)
InsertByLength(sorted, name) ==
    IF sorted = <<>> THEN <<name>>
    ELSE IF Len(Head(sorted)) >= Len(name)
         THEN <<Head(sorted)>> \o InsertByLength(Tail(sorted), name)
    ELSE <<name>> \o sorted

\* insertion into a list ordered by (a, b) => a.length - b.length
RECURSIVE InsertByLengthAscending(_, _)
InsertByLengthAscending(sorted, name) ==
    IF sorted = <<>> THEN <<name>>
    ELSE IF Len(Head(sorted)) <= Len(name)
         THEN <<Head(sorted)>> \o InsertByLengthAscending(Tail(sorted), name)
    ELSE <<name>> \o sorted

\* a sort with the length-ascending comparator
RECURSIVE SortByLengthAscending(_, _)
SortByLengthAscending(sorted, names) ==
    IF names = <<>> THEN sorted
    ELSE SortByLengthAscending(InsertByLengthAscending(sorted, Head(names)), Tail(names))

\* Array.prototype.sort (stable) with the length-descending comparator
RECURSIVE SortByLength(_, _)
SortByLength(sorted, names) ==
    IF names = <<>> THEN sorted
    ELSE SortByLength(InsertByLength(sorted, Head(names)), Tail(names))

RECURSIVE ReplaceEntities(_, _, _)
ReplaceEntities(s, map, names) ==
    IF names = <<>> THEN s
    ELSE ReplaceEntities(ReplaceEntity(s, Head(names), MapGet(map, Head(names))),
                         map, Tail(names))

\* getProcessedText of DraftEditor and DraftingPanel
getProcessedText(d, cs) ==
    IF d = <<>> THEN <<>>
    ELSE LET map == BuildUniqueMap(<<>>, cs)
         IN  ReplaceEntities(d, map, SortByLength(<<>>, MapKeys(map)))

(***************************************************************************)
(* KnowledgeGraph: the classifier, the colours and the node painter.       *)
(***************************************************************************)
Null == <<"null">>

True == <<"true">>

False == <<"false">>

\* what a TypeError thrown by a property read of undefined leaves behind
TypeError == <<"TypeError">>

\* JavaScript truthiness of a value of the model
JsTruthy(v) == v \notin {Undefined, Null, False, <<>>}

LawTerms == {<<"a","c","t">>, <<"c","o","d","e">>, <<"b","n","s">>, <<"c","o","n","s","t","i","t","u","t","i","o","n">>, <<"b","h","a","r","a","t","i","y","a">>}

SectionTerms == {<<"s","e","c","t","i","o","n">>, <<"a","r","t","i","c","l","e">>, <<"o","r","d","e","r">>, <<"r","u","l","e">>, <<"p","a","r","t">>}

CaseTerms == {<<" ","v","."," ">>, <<" ","v","s"," ">>}

\* getNodeType without label.toLowerCase(): the terms are looked for in the
\* label as it is written
getNodeTypeCaseSensitive(label) ==
    IF label = Undefined THEN TypeError
    ELSE IF \E t \in LawTerms : includes(label, t) THEN "law"
    ELSE IF \E t \in SectionTerms : includes(label, t) THEN "section"
    ELSE IF \E t \in CaseTerms : includes(label, t) THEN "case"
    ELSE "concept"

\* getNodeType; label.toLowerCase() of a missing label throws
getNodeType(label) ==
    IF label = Undefined THEN TypeError
    ELSE LET lower == toLowerCase(label)
         IN  IF \E t \in LawTerms : includes(lower, t) THEN "law"
             ELSE IF \E t \in SectionTerms : includes(lower, t) THEN "section"
             ELSE IF \E t \in CaseTerms : includes(lower, t) THEN "case"
             ELSE "concept"

getNodeColor(type) ==
    CASE type = "law" -> "#2563eb"
      [] type = "section" -> "#dc2626"
      [] type = "case" -> "#7c3aed"
      [] type = "concept" -> "#16a34a"
      [] OTHER -> "#64748b"

Regimes == {"IPC", "BNS", "Compare"}

\* a node of a payload that has no metadata
NoMetadata == [absent |-> TRUE]

\* one element of graphData.nodes with the type that the payload supplies
TransformNodeTrustsType(node) ==
    [id |-> node.id,
     name |-> node.label,
     type |-> node.type,
     citationUuid |-> node.citation_uuid,
     tooltip |-> IF node.metadata = NoMetadata THEN Undefined ELSE node.metadata.tooltip,
     isCited |-> IF node.metadata = NoMetadata THEN Undefined ELSE node.metadata.is_cited]

\* one element of graphData.nodes: data.nodes.map(node => ({...})), with
\* node.metadata?.tooltip and node.metadata?.is_cited
TransformNode(node) ==
    [id |-> node.id,
     name |-> node.label,
     type |-> getNodeType(node.label),
     citationUuid |-> node.citation_uuid,
     tooltip |-> IF node.metadata = NoMetadata THEN Undefined ELSE node.metadata.tooltip,
     isCited |-> IF node.metadata = NoMetadata THEN Undefined ELSE node.metadata.is_cited]

\* the regime dimming of nodeCanvasObject, in percent of full opacity
BaseOpacity(name, mode) ==
    IF mode # "Compare"
    THEN LET isIPC == includes(name, <<"I","P","C">>)
             isBNS == includes(name, <<"B","N","S">>) \/ includes(name, <<"B","h","a","r","a","t","i","y","a">>)
         IN  IF mode = "IPC" /\ isBNS THEN 10
             ELSE IF mode = "BNS" /\ isIPC THEN 10
             ELSE 100
    ELSE 100

\* a tooltip that is a number
NumberTooltip == <<"number", "5">>

\* the values that are no strings
NonStrings == {Undefined, Null, True, False, TypeError, NumberTooltip}

\* nodeCanvasObject throws: node.tooltip.split is called on the truthy
\* tooltip of the hovered node, and only a string has split
PaintThrows(n, hovered) ==
    hovered = n.id /\ JsTruthy(n.tooltip) /\ n.tooltip \in NonStrings

\* nodeCanvasObject without the baseOpacity = 1.0 of its hover branch: the
\* hovered node keeps the opacity of the regime filter
nodeCanvasObjectHoverDimmed(n, mode, hovered) ==
    LET isHovered == JsTruthy(hovered) /\ hovered = n.id
        baseOpacity == BaseOpacity(n.name, mode)
        nodeColor == IF isHovered THEN "#f59e0b" ELSE getNodeColor(n.type)
    IN  [alpha |-> baseOpacity,
         fillStyle |-> nodeColor,
         radius |-> IF n.type = "law" THEN 8 ELSE IF JsTruthy(n.isCited) THEN 6 ELSE 4,
         bold |-> n.type = "law",
         halo |-> IF JsTruthy(n.isCited)
                  THEN [strokeStyle |-> nodeColor, alpha |-> (baseOpacity * 20) \div 100]
                  ELSE [strokeStyle |-> "none", alpha |-> 0],
         tooltip |-> IF hovered = n.id /\ JsTruthy(n.tooltip) THEN n.tooltip ELSE Null]

\* nodeCanvasObject: what one call paints for a node of graphData.nodes
nodeCanvasObject(n, mode, hovered) ==
    LET isHovered == JsTruthy(hovered) /\ hovered = n.id
        baseOpacity == IF isHovered THEN 100 ELSE BaseOpacity(n.name, mode)
        nodeColor == IF isHovered THEN "#f59e0b" ELSE getNodeColor(n.type)
    IN  [alpha |-> baseOpacity,
         fillStyle |-> nodeColor,
         radius |-> IF n.type = "law" THEN 8 ELSE IF JsTruthy(n.isCited) THEN 6 ELSE 4,
         bold |-> n.type = "law",
         halo |-> IF JsTruthy(n.isCited)
                  THEN [strokeStyle |-> nodeColor, alpha |-> (baseOpacity * 20) \div 100]
                  ELSE [strokeStyle |-> "none", alpha |-> 0],
         tooltip |-> IF hovered = n.id /\ JsTruthy(n.tooltip) THEN n.tooltip ELSE Null]

\* one element of graphData.links: data.edges.map(edge => ({...}))
TransformEdge(edge) ==
    [source |-> edge.source,
     target |-> edge.target,
     label |-> IF JsTruthy(edge.label) THEN edge.label ELSE edge.relation]

\* const graphData = { nodes: data.nodes.map(...), links: data.edges.map(...) }
TransformGraph(d) ==
    [nodes |-> [i \in DOMAIN d.nodes |-> TransformNode(d.nodes[i])],
     links |-> [i \in DOMAIN d.edges |-> TransformEdge(d.edges[i])]]

\* one frame: nodeCanvasObject called for every node of the graph
\* the frame callback calls nodeCanvasObject node by node; nothing catches
\* what a call throws, so the nodes drawn are those before the first throw
PaintNodes(g, mode, hovered) ==
    LET Throws(i) == PaintThrows(g.nodes[i], hovered)
        t == FirstFrom(g.nodes, 1, Throws)
    IN  [i \in 1..(t - 1) |-> nodeCanvasObject(g.nodes[i], mode, hovered)]

\* a call of nodeCanvasObject threw during the frame
FrameThrows(g, hovered) == \E i \in DOMAIN g.nodes : PaintThrows(g.nodes[i], hovered)

EquivalentTo == <<"E","Q","U","I","V","A","L","E","N","T","_","T","O">>

\* linkColor, linkWidth and linkLineDash of ForceGraph2D for a link of
\* graphData.links; a dash of null is the solid line, <<>>
linkStyle(link) ==
    [color |-> IF link.label = EquivalentTo THEN "#EAB308" ELSE "#94a3b8",
     width |-> IF link.label = EquivalentTo THEN 2 ELSE 1,
     dash |-> IF link.label = EquivalentTo THEN <<5, 5>> ELSE <<>>]

\* the links of one frame, each drawn with the values of its accessors
PaintLinks(g) == [i \in DOMAIN g.links |-> linkStyle(g.links[i])]

\* what the frame draws for link i, in order: the line, then
\* linkCanvasObject in mode 'after', which draws the label if there is one
LinkOps(link, i) ==
    << [op |-> "link", i |-> i] >>
    \o (IF JsTruthy(link.label) THEN << [op |-> "linkLabel", i |-> i] >> ELSE <<>>)

\* what nodeCanvasObject draws for node i, in order: the circle, the halo,
\* the label, and in the same call the tooltip of the hovered node
NodeOps(n, i, hovered) ==
    << [op |-> "circle", i |-> i] >>
    \o (IF JsTruthy(n.isCited) THEN << [op |-> "halo", i |-> i] >> ELSE <<>>)
    \o << [op |-> "label", i |-> i] >>
    \o (IF hovered = n.id /\ JsTruthy(n.tooltip) /\ ~PaintThrows(n, hovered)
        THEN << [op |-> "tooltip", i |-> i] >>
        ELSE <<>>)

\* the drawing operations of one frame in the order of the canvas: the
\* links, then the nodes in the order of graphData.nodes, up to and with
\* the node whose call throws
DrawOps(g, hovered) ==
    LET Throws(i) == PaintThrows(g.nodes[i], hovered)
        t == FirstFrom(g.nodes, 1, Throws)
        last == IF t > Len(g.nodes) THEN Len(g.nodes) ELSE t
    IN  Flatten([i \in DOMAIN g.links |-> LinkOps(g.links[i], i)])
        \o Flatten([i \in 1..last |-> NodeOps(g.nodes[i], i, hovered)])

(***************************************************************************)
(* Inputs of the painter: labels are made of up to MaxLabelTokens pieces.  *)
(***************************************************************************)
LabelTokens ==
    { <<"A","c","t">>,
      <<"B","N","S">>,
      <<"b","n","s">>,
      <<"I","P","C">>,
      <<"i","p","c">>,
      <<"B","h","a","r","a","t","i","y","a">>,
      <<"S","e","c","t","i","o","n">>,
      <<"O","R","D","E","R">>,
      <<" ","v","."," ">>,
      <<" ","v","s"," ">>,
      <<"x">> }

Labels ==
    UNION { { Flatten(ts) : ts \in [1..n -> LabelTokens] } : n \in 0..MaxLabelTokens }

\* labels that are painted with every combination of the other fields
FewLabels == { <<"B","N","S"," ","A","c","t">>, <<"I","P","C"," ","S","e","c","t","i","o","n">>, <<"T","h","e","f","t">> }

Id1 == <<"n","1">>

Id2 == <<"n","2">>

Tooltip1 == <<"t","i","p">>

\* a node of a payload: {id, label, type, citation_uuid, metadata: {tooltip, is_cited}}
PayloadNode(id, l, ty, cu, tt, c) ==
    [id |-> id, label |-> l, type |-> ty, citation_uuid |-> cu,
     metadata |-> [tooltip |-> tt, is_cited |-> c], x |-> Undefined, y |-> Undefined]

\* payloads of one node and no edge
OneNodePayloads ==
    { [nodes |-> <<n>>, edges |-> <<>>] :
        n \in { PayloadNode(Id1, l, "other", Undefined, Undefined, False) : l \in Labels }
              \cup
              { PayloadNode(Id1, l, ty, Undefined, tt, c) :
                  l \in FewLabels, ty \in {"law", "other"},
                  tt \in {Undefined, Tooltip1}, c \in {True, False, Undefined} }
              \cup
              { [PayloadNode(Id1, l, "other", Undefined, Undefined, Undefined)
                   EXCEPT !.metadata = NoMetadata] : l \in FewLabels } }

(***************************************************************************)
(* Inputs of the resolver.                                                 *)
(***************************************************************************)
TextAlphabet == {"a", "A", " ", "."}

Texts == UNION {[1..n -> TextAlphabet] : n \in 0..MaxTextLen}

\* entity_name values: absent, empty, and names that start or end with a
\* word character or with a non-word character
EntityNames ==
    { Undefined, <<>>, <<"a">>, <<"A">>, <<"a", "a">>, <<"a", " ", "a">>,
      <<"a", ".">>, <<".", "a">> }

DigitChar == <<"1", "2", "3", "4", "5", "6", "7", "8", "9">>

\* the uuid of the i-th citation of a list
Uuid(i) == <<"u", DigitChar[i]>>

CitationLists ==
    UNION { { [i \in 1..n |-> [uuid |-> Uuid(i), entity_name |-> names[i]]] :
              names \in [1..n -> EntityNames] } : n \in 0..MaxCitations }

Sp == <<" ">>

IndianContractAct ==
    Flatten(<< <<"I","n","d","i","a","n">>, Sp,
               <<"C","o","n","t","r","a","c","t">>, Sp, <<"A","c","t">> >>)

Act == <<"A","c","t">>

\* 'Under the Indian Contract Act, the Act applies.'
ScenarioText ==
    Flatten(<< <<"U","n","d","e","r">>, Sp, <<"t","h","e">>, Sp, IndianContractAct,
               <<",">>, Sp, <<"t","h","e">>, Sp, Act, Sp,
               <<"a","p","p","l","i","e","s",".">> >>)

ScenarioCitations ==
    << [uuid |-> Uuid(1), entity_name |-> IndianContractAct],
       [uuid |-> Uuid(2), entity_name |-> Act] >>

LinkOf(name, uuid) == <<"[">> \o name \o <<"]", "(">> \o uuid \o <<")">>

\* payloads of two nodes and no edge; the first node carries a citation
TwoNodePayloads ==
    { [nodes |-> << PayloadNode(Id1, <<"B","N","S"," ","A","c","t">>, "law", Uuid(1), tt1, True),
                    PayloadNode(Id2, <<"T","h","e","f","t">>, "concept", Undefined, tt2, False) >>,
       edges |-> <<>>] : tt1 \in {Undefined, Tooltip1, NumberTooltip},
                         tt2 \in {Undefined, Tooltip1, NumberTooltip} }

Replaces == <<"r","e","p","l","a","c","e","s">>

Defines == <<"D","E","F","I","N","E","S">>

\* payloads of two nodes and one edge: the relation is EQUIVALENT_TO or
\* another one, the edge has a label of its own or none
EdgePayloads ==
    { [nodes |-> << PayloadNode(Id1, <<"I","P","C"," ","S","e","c","t","i","o","n">>, "section", Undefined, Tooltip1, False),
                    PayloadNode(Id2, <<"B","N","S"," ","S","e","c","t","i","o","n">>, "section", Undefined, Undefined, False) >>,
       edges |-> << [source |-> Id1, target |-> Id2, relation |-> rel, label |-> l] >>] :
         rel \in {EquivalentTo, Defines}, l \in {Undefined, <<>>, Replaces} }

\* the payloads that replace the graph on screen
ReplacementPayloads ==
    TwoNodePayloads
    \cup { [nodes |-> << PayloadNode(Id1, l, "other", Undefined, Undefined, False) >>,
            edges |-> <<>>] : l \in FewLabels }

(***************************************************************************)
(* State.                                                                  *)
(***************************************************************************)
VARIABLES
    draft,       \* DraftEditor: draft
    citations,   \* DraftEditor: the citations prop
    rpc,         \* getProcessedText: where the call stands
    text,        \* getProcessedText: let text
    uniqueMap,   \* getProcessedText: uniqueMap, entries in insertion order
    entities,    \* getProcessedText: entities
    ci,          \* index of the next citation of citations.forEach
    ei,          \* index of the next entity of entities.forEach
    processed,   \* the value getProcessedText returned
    data,        \* KnowledgeGraph: the data prop
    regimeMode,  \* KnowledgeGraph: the regimeMode prop
    hoveredNode, \* KnowledgeGraph: hoveredNode
    mounted,     \* KnowledgeGraph has rendered
    fgData,      \* KnowledgeGraph: graphData, the prop of ForceGraph2D
    layout,      \* the x/y that the layout engine holds for each node of graphData.nodes
    frame,       \* the last frame painted on the canvas
    activeNodeId, \* useAppStore: activeNodeId
    activeTab,        \* Home: activeTab
    highlightedNode,  \* Home: highlightedNode, the focusedNodeId prop
    query,            \* Home: query
    isLoading,        \* Home: isLoading
    chatMessages,     \* Home: chatMessages
    chatPending,      \* the /ask requests awaited by handleSubmit
    draftCitations,   \* Home: draftCitations
    activeCitationId, \* Home: activeCitationId
    crashed,          \* the React tree is gone: a render threw or the browser left the page
    fgRef,            \* KnowledgeGraph: fgRef.current is set
    camera,           \* the camera animations of the force graph
    facts,            \* DraftEditor: facts
    isDrafting,       \* DraftEditor: isDrafting
    draftError,       \* DraftEditor: error
    draftPending,     \* the /draft requests awaited by handleDraft, in issue order
    draftIssued,      \* how many /draft requests have been issued
    auditFile,        \* AuditPanel: file is set
    isAuditing,       \* AuditPanel: isAuditing
    auditResult,      \* AuditPanel: result
    auditError,       \* AuditPanel: error is set
    auditPending      \* the /audit request awaited by handleAudit

resolverVars == <<draft, citations, rpc, text, uniqueMap, entities, ci, ei, processed>>

graphVars == <<data, regimeMode, hoveredNode, mounted, fgData, layout, frame, activeNodeId>>

pageVars == <<activeTab, highlightedNode, query, isLoading, chatMessages, chatPending,
              draftCitations, activeCitationId, crashed, fgRef, camera>>

editorVars == <<facts, isDrafting, draftError, draftPending, draftIssued>>

auditVars == <<auditFile, isAuditing, auditResult, auditError, auditPending>>

vars == <<resolverVars, graphVars, pageVars, editorVars, auditVars>>

\* graphData of Home is null, or graph_data is absent from a response
NullGraph == [null |-> TRUE]

IdleCamera == [centerAt |-> "idle", target |-> <<Undefined, Undefined>>, zoom |-> "idle"]

NoAuditResult == [null |-> TRUE]

\* the page as useState leaves it, without its graphData
PageIdle ==
    /\ activeTab = "chat"
    /\ highlightedNode = Null
    /\ query = <<>>
    /\ isLoading = FALSE
    /\ chatMessages = <<>>
    /\ chatPending = 0
    /\ draftCitations = <<>>
    /\ activeCitationId = Null
    /\ crashed = FALSE
    /\ fgRef = FALSE
    /\ camera = IdleCamera
    /\ facts = <<>>
    /\ isDrafting = FALSE
    /\ draftError = FALSE
    /\ draftPending = <<>>
    /\ draftIssued = 0
    /\ auditFile = FALSE
    /\ isAuditing = FALSE
    /\ auditResult = NoAuditResult
    /\ auditError = FALSE
    /\ auditPending = "none"

EmptyGraph == [nodes |-> <<>>, links |-> <<>>]

\* the objects of graphData.nodes as data.nodes.map makes them: they have
\* no x and no y until the layout engine writes them
Unpositioned(g) == [i \in DOMAIN g.nodes |-> <<Undefined, Undefined>>]

\* the position that the layout engine gives the i-th node
EnginePosition(i) == << <<"7", DigitChar[i]>>, <<"8", DigitChar[i]>> >>

\* the positions of the nodes once the layout engine has advanced them
EngineLayout(g) == [i \in DOMAIN g.nodes |-> EnginePosition(i)]

NoFrame ==
    [regimeMode |-> "Compare", hovered |-> Null, paints |-> <<>>, threw |-> FALSE,
     links |-> <<>>, ops |-> <<>>]

\* the resolver at rest
ResolverIdle ==
    /\ draft = <<>>
    /\ citations = <<>>
    /\ rpc = "done"
    /\ text = <<>>
    /\ uniqueMap = <<>>
    /\ entities = <<>>
    /\ ci = 1
    /\ ei = 1
    /\ processed = <<>>

\* no graph on screen
GraphIdle ==
    /\ data = NullGraph
    /\ regimeMode = "Compare"
    /\ hoveredNode = Null
    /\ mounted = FALSE
    /\ fgData = EmptyGraph
    /\ layout = <<>>
    /\ frame = NoFrame
    /\ activeNodeId = Null

(***************************************************************************)
(* getProcessedText, statement by statement.                               *)
(***************************************************************************)
ResolverInit ==
    /\ \/ draft \in Texts /\ citations \in CitationLists
       \/ draft = ScenarioText /\ citations = ScenarioCitations
    /\ rpc = "start"
    /\ text = <<>>
    /\ uniqueMap = <<>>
    /\ entities = <<>>
    /\ ci = 1
    /\ ei = 1
    /\ processed = Undefined
    /\ GraphIdle
    /\ PageIdle

\* if (!draft) return ''
ReturnEmpty ==
    /\ rpc = "start"
    /\ draft = <<>>
    /\ processed' = <<>>
    /\ rpc' = "done"
    /\ UNCHANGED <<draft, citations, text, uniqueMap, entities, ci, ei>>
    /\ UNCHANGED <<graphVars, pageVars, editorVars, auditVars>>

\* let text = draft; const uniqueMap = new Map()
BeginResolve ==
    /\ rpc = "start"
    /\ draft # <<>>
    /\ text' = draft
    /\ uniqueMap' = <<>>
    /\ ci' = 1
    /\ rpc' = "map"
    /\ UNCHANGED <<draft, citations, entities, ei, processed>>
    /\ UNCHANGED <<graphVars, pageVars, editorVars, auditVars>>

\* one iteration of citations.forEach
MapStep ==
    /\ rpc = "map"
    /\ ci <= Len(citations)
    /\ uniqueMap' = MapInsert(uniqueMap, citations[ci])
    /\ ci' = ci + 1
    /\ UNCHANGED <<draft, citations, rpc, text, entities, ei, processed>>
    /\ UNCHANGED <<graphVars, pageVars, editorVars, auditVars>>

\* const entities = Array.from(uniqueMap.keys()).sort(...)
SortEntities ==
    /\ rpc = "map"
    /\ ci > Len(citations)
    /\ entities' = SortByLength(<<>>, MapKeys(uniqueMap))
    /\ ei' = 1
    /\ rpc' = "replace"
    /\ UNCHANGED <<draft, citations, text, uniqueMap, ci, processed>>
    /\ UNCHANGED <<graphVars, pageVars, editorVars, auditVars>>

\* one iteration of entities.forEach
ReplaceStep ==
    /\ rpc = "replace"
    /\ ei <= Len(entities)
    /\ text' = ReplaceEntity(text, entities[ei], MapGet(uniqueMap, entities[ei]))
    /\ ei' = ei + 1
    /\ UNCHANGED <<draft, citations, rpc, uniqueMap, entities, ci, processed>>
    /\ UNCHANGED <<graphVars, pageVars, editorVars, auditVars>>

\* return text
ReturnText ==
    /\ rpc = "replace"
    /\ ei > Len(entities)
    /\ processed' = text
    /\ rpc' = "done"
    /\ UNCHANGED <<draft, citations, text, uniqueMap, entities, ci, ei>>
    /\ UNCHANGED <<graphVars, pageVars, editorVars, auditVars>>

ResolverNext ==
    \/ ReturnEmpty
    \/ BeginResolve
    \/ MapStep
    \/ SortEntities
    \/ ReplaceStep
    \/ ReturnText

SpecResolver == ResolverInit /\ [][ResolverNext]_vars

\* the statement-by-statement run returns what the function returns
ResolverAgrees == rpc = "done" => processed = getProcessedText(draft, citations)

(***************************************************************************)
(* KnowledgeGraph with a payload on screen.                                *)
(***************************************************************************)
GraphInit ==
    /\ ResolverIdle
    /\ PageIdle
    /\ data \in OneNodePayloads \cup TwoNodePayloads \cup EdgePayloads
    /\ regimeMode = "Compare"
    /\ hoveredNode = Null
    /\ mounted = FALSE
    /\ fgData = EmptyGraph
    /\ layout = <<>>
    /\ frame = NoFrame
    /\ activeNodeId = Null

\* the component function runs: graphData is computed and handed over
RenderGraph ==
    /\ ~mounted
    /\ mounted' = TRUE
    /\ fgData' = TransformGraph(data)
    /\ layout' = Unpositioned(fgData')
    /\ UNCHANGED <<data, regimeMode, hoveredNode, frame, activeNodeId>>
    /\ UNCHANGED <<resolverVars, pageVars, editorVars, auditVars>>

\* the frame callback of the canvas: every link and every node is painted
PaintFrame ==
    /\ mounted
    /\ frame' = [regimeMode |-> regimeMode, hovered |-> hoveredNode,
                 paints |-> PaintNodes(fgData, regimeMode, hoveredNode),
                 threw |-> FrameThrows(fgData, hoveredNode),
                 links |-> PaintLinks(fgData),
                 ops |-> DrawOps(fgData, hoveredNode)]
    /\ UNCHANGED <<data, regimeMode, hoveredNode, mounted, fgData, layout, activeNodeId>>
    /\ UNCHANGED <<resolverVars, pageVars, editorVars, auditVars>>

\* handleNodeHover: setHoveredNode(node ? node.id : null)
handleNodeHover ==
    /\ mounted
    /\ \E h \in {Null} \cup {fgData.nodes[i].id : i \in DOMAIN fgData.nodes} :
          hoveredNode' = h
    /\ UNCHANGED <<data, regimeMode, mounted, fgData, layout, frame, activeNodeId>>
    /\ UNCHANGED <<resolverVars, pageVars, editorVars, auditVars>>

\* a regime toggle with a fourth button
setRegimeFourthButton ==
    /\ ~crashed
    /\ activeTab = "chat"
    /\ \E mode \in Regimes \cup {"Both"} : regimeMode' = mode
    /\ UNCHANGED <<data, hoveredNode, mounted, fgData, layout, frame, activeNodeId>>
    /\ UNCHANGED <<resolverVars, pageVars, editorVars, auditVars>>

\* the regime toggle of the page: onClick={() => setRegime(mode)}
setRegime ==
    /\ ~crashed
    /\ activeTab = "chat"
    /\ \E mode \in Regimes : regimeMode' = mode
    /\ UNCHANGED <<data, hoveredNode, mounted, fgData, layout, frame, activeNodeId>>
    /\ UNCHANGED <<resolverVars, pageVars, editorVars, auditVars>>

\* a new payload replaces the graph: setGraphData(data.graph_data) of
\* handleSubmit, and KnowledgeGraph renders again with the new data prop.
\* The component stays mounted and keeps its state; the frames of the
\* previous graph are no longer on the canvas
setGraphData ==
    /\ mounted
    /\ \E g \in ReplacementPayloads :
          /\ g # data
          /\ data' = g
          /\ fgData' = TransformGraph(g)
    /\ layout' = Unpositioned(fgData')
    /\ frame' = NoFrame
    /\ UNCHANGED <<regimeMode, hoveredNode, mounted, activeNodeId>>
    /\ UNCHANGED <<resolverVars, pageVars, editorVars, auditVars>>

\* handleNodeClick: if (node.citationUuid) setActiveNodeId(node.citationUuid)
handleNodeClick ==
    /\ mounted
    /\ \E i \in DOMAIN fgData.nodes :
          activeNodeId' = IF JsTruthy(fgData.nodes[i].citationUuid)
                          THEN fgData.nodes[i].citationUuid
                          ELSE activeNodeId
    /\ UNCHANGED <<data, regimeMode, hoveredNode, mounted, fgData, layout, frame>>
    /\ UNCHANGED <<resolverVars, pageVars, editorVars, auditVars>>

GraphNext ==
    \/ RenderGraph
    \/ PaintFrame
    \/ handleNodeHover
    \/ handleNodeClick
    \/ setGraphData
    \/ setRegime

SpecGraph == GraphInit /\ [][GraphNext]_vars

(***************************************************************************)
(* Inputs of the page: what the user types and what the service answers.   *)
(***************************************************************************)
Whitespace == {" ", "\t", "\n", "\r"}

RECURSIVE TrimLeft(_)
TrimLeft(s) == IF s # <<>> /\ Head(s) \in Whitespace THEN TrimLeft(Tail(s)) ELSE s

RECURSIVE TrimRight(_)
TrimRight(s) ==
    IF s # <<>> /\ s[Len(s)] \in Whitespace THEN TrimRight(SubSeq(s, 1, Len(s) - 1)) ELSE s

\* String.prototype.trim
trim(s) == TrimRight(TrimLeft(s))

QueryTexts == { <<>>, <<" ">>, <<"q">> }

FactsTexts == { <<>>, <<"f">> }

\* an id that no node of any payload carries
Id9 == <<"n","9">>

X1 == <<"1","0">>

Y1 == <<"2","0">>

X2 == <<"3","0">>

Y2 == <<"4","0">>

PayloadEdge(src, tgt, rel, l) == [source |-> src, target |-> tgt, relation |-> rel, label |-> l]

\* two nodes with positions, one edge between them
GraphValid ==
    [nodes |-> << [PayloadNode(Id1, <<"B","N","S"," ","A","c","t">>, "law", Uuid(1), Tooltip1, True)
                     EXCEPT !.x = X1, !.y = Y1],
                  [PayloadNode(Id2, <<"T","h","e","f","t">>, "concept", Undefined, Undefined, False)
                     EXCEPT !.x = X2, !.y = Y2] >>,
     edges |-> << PayloadEdge(Id1, Id2, <<"D","E","F","I","N","E","S">>, Undefined) >>]

\* an edge whose target is no node of the payload
GraphDangling ==
    [nodes |-> << PayloadNode(Id1, <<"I","P","C"," ","S","e","c","t","i","o","n">>, "section", Undefined, Undefined, False) >>,
     edges |-> << PayloadEdge(Id1, Id9, <<"E","Q","U","I","V","A","L","E","N","T","_","T","O">>, Undefined) >>]

\* a node without label
GraphNoLabel ==
    [nodes |-> << PayloadNode(Id1, <<"T","h","e","f","t">>, "concept", Undefined, Undefined, False),
                  PayloadNode(Id2, Undefined, "concept", Undefined, Undefined, False) >>,
     edges |-> <<>>]

\* a node without id
GraphNoId ==
    [nodes |-> << PayloadNode(Undefined, <<"T","h","e","f","t">>, "concept", Undefined, Undefined, False) >>,
     edges |-> <<>>]

GraphPayloads == {GraphValid, GraphDangling, GraphNoLabel, GraphNoId}

Answer1 == <<"a","n","s">>

\* 'Sorry, I encountered an error processing your request.'
SorryText == <<"S","o","r","r","y">>

\* the decoded bodies of /ask: graph_data is present or not
ChatResponses ==
    { [answer |-> Answer1, graph_data |-> g] : g \in GraphPayloads \cup {NullGraph} }

\* a uuid in its canonical form of 36 characters
LongUuid ==
    << "1","2","3","e","4","5","6","7","-","e","8","9","b","-","1","2","d","3","-",
       "a","4","5","6","-","4","2","6","6","1","4","1","7","4","0","0","0" >>

\* https://indiankanoon.org/doc/1/, a link of more than 30 characters that
\* is no uuid
OwnUrl ==
    << "h","t","t","p","s",":","/","/","i","n","d","i","a","n","k","a","n","o","o","n",
       ".","o","r","g","/","d","o","c","/","1","/" >>

\* the decoded bodies of /draft: citations is present or not, and the
\* answer, which is markdown, has a link of its own or none
DraftResponses ==
    { [answer |-> <<"a", " ", "A">>, hasCitations |-> TRUE,
       citations |-> << [uuid |-> Uuid(1), entity_name |-> <<"a">>],
                        [uuid |-> LongUuid, entity_name |-> <<"A">>] >>],
      [answer |-> <<"A">>, hasCitations |-> FALSE, citations |-> <<>>],
      [answer |-> <<"[", "x", "]", "(">> \o OwnUrl \o <<")">>,
       hasCitations |-> FALSE, citations |-> <<>>] }

\* the hrefs of the links that can be clicked in a draft
ClickableHrefs == {Uuid(1), LongUuid, OwnUrl}

\* the citations that findings carry: ids of nodes, the citation_uuid of a
\* node, an id of no node
FindingCitations == {Id1, Id2, Uuid(1), Id9}

\* the decoded bodies of /audit: the citations of the findings
AuditResults ==
    { [findings |-> <<>>], [findings |-> <<Id1, Id2, Uuid(1), Id9>>] }

(***************************************************************************)
(* Home and its children: KnowledgeGraph, DraftEditor, AuditPanel.         *)
(***************************************************************************)
Init ==
    /\ ResolverIdle
    /\ GraphIdle
    /\ PageIdle

\* data.nodes.map calls getNodeType(node.label): a missing label throws
RenderThrows(d) == \E i \in DOMAIN d.nodes : d.nodes[i].label = Undefined

\* data.nodes.find(n => n.id === focusedNodeId)
FindNode(d, id) ==
    d.nodes[CHOOSE i \in DOMAIN d.nodes :
               /\ d.nodes[i].id = id
               /\ \A j \in 1..(i - 1) : d.nodes[j].id # id]

\* the auto-focus effect without its if (node) test
FocusEffectNoGuard(focus, d, ref, cam) ==
    IF JsTruthy(focus) /\ ref
    THEN [centerAt |-> "animating", target |-> <<Undefined, Undefined>>, zoom |-> "animating"]
    ELSE cam

\* the auto-focus effect: the camera after it has run
FocusEffect(focus, d, ref, cam) ==
    IF JsTruthy(focus) /\ ref
    THEN IF \E i \in DOMAIN d.nodes : d.nodes[i].id = focus
         THEN [centerAt |-> "animating",
               target |-> <<FindNode(d, focus).x, FindNode(d, focus).y>>,
               zoom |-> "animating"]
         ELSE cam
    ELSE cam

\* the right panel after a render of Home with the tab, the graphData and
\* the highlightedNode given; deps: a dependency of the effect has changed
KGCommit(tab, d, focus, deps) ==
    IF d = NullGraph \/ tab = "draft"
    THEN /\ mounted' = FALSE
         /\ hoveredNode' = Null
         /\ fgRef' = FALSE
         /\ fgData' = EmptyGraph
         /\ layout' = <<>>
         /\ camera' = IdleCamera
         /\ crashed' = crashed
    ELSE IF RenderThrows(d)
    THEN /\ crashed' = TRUE
         /\ mounted' = FALSE
         /\ hoveredNode' = Null
         /\ fgRef' = FALSE
         /\ fgData' = EmptyGraph
         /\ layout' = <<>>
         /\ camera' = IdleCamera
    ELSE IF ~mounted
    THEN /\ mounted' = TRUE
         /\ hoveredNode' = Null
         /\ fgData' = TransformGraph(d)
         /\ layout' = Unpositioned(fgData')
         /\ crashed' = crashed
         /\ \E r \in BOOLEAN :
               /\ fgRef' = r
               /\ camera' = FocusEffect(focus, d, r, IdleCamera)
    ELSE /\ mounted' = TRUE
         /\ hoveredNode' = hoveredNode
         /\ fgData' = TransformGraph(d)
         /\ layout' = Unpositioned(fgData')
         /\ fgRef' = fgRef
         /\ crashed' = crashed
         /\ camera' = IF deps THEN FocusEffect(focus, d, fgRef, camera) ELSE camera

kgVars == <<mounted, hoveredNode, fgRef, fgData, layout, camera, crashed>>

chatVars == <<query, isLoading, chatMessages, chatPending>>

unusedVars == <<citations, rpc, text, uniqueMap, entities, ci, ei, processed, frame,
               activeNodeId>>

\* onChange / onChangeText of the chat input
setQuery(q) ==
    /\ ~crashed
    /\ activeTab = "chat"
    /\ query' = q
    /\ UNCHANGED <<isLoading, chatMessages, chatPending>>
    /\ UNCHANGED <<activeTab, highlightedNode, regimeMode, data, draftCitations, activeCitationId>>
    /\ UNCHANGED <<kgVars, draft, editorVars, auditVars, unusedVars>>

\* handleSubmit up to its await; the submit button is disabled while
\* isLoading or when the query is blank
handleSubmit ==
    /\ ~crashed
    /\ activeTab = "chat"
    /\ ~isLoading
    /\ trim(query) # <<>>
    /\ Len(chatMessages) < 2 * MaxSubmits
    /\ chatMessages' = Append(chatMessages, [role |-> "user", content |-> query])
    /\ query' = <<>>
    /\ isLoading' = TRUE
    /\ chatPending' = chatPending + 1
    /\ UNCHANGED <<activeTab, highlightedNode, regimeMode, data, draftCitations, activeCitationId>>
    /\ UNCHANGED <<kgVars, draft, editorVars, auditVars, unusedVars>>

\* handleSubmit after its await: the response r has been decoded
ChatResponse(r) ==
    /\ ~crashed
    /\ chatPending > 0
    /\ chatMessages' = Append(chatMessages, [role |-> "assistant", content |-> r.answer])
    /\ data' = IF r.graph_data # NullGraph THEN r.graph_data ELSE data
    /\ isLoading' = FALSE
    /\ chatPending' = chatPending - 1
    /\ KGCommit(activeTab, data', highlightedNode, r.graph_data # NullGraph)
    /\ UNCHANGED <<query, activeTab, highlightedNode, regimeMode, draftCitations, activeCitationId>>
    /\ UNCHANGED <<draft, editorVars, auditVars, unusedVars>>

\* a handleSubmit whose catch block appends nothing to the chat
ChatFailureSilent ==
    /\ ~crashed
    /\ chatPending > 0
    /\ chatMessages' = chatMessages
    /\ isLoading' = FALSE
    /\ chatPending' = chatPending - 1
    /\ UNCHANGED <<query, activeTab, highlightedNode, regimeMode, data, draftCitations, activeCitationId>>
    /\ UNCHANGED <<kgVars, draft, editorVars, auditVars, unusedVars>>

\* handleSubmit after its await: fetch or response.json() threw
ChatFailure ==
    /\ ~crashed
    /\ chatPending > 0
    /\ chatMessages' = Append(chatMessages, [role |-> "assistant", content |-> SorryText])
    /\ isLoading' = FALSE
    /\ chatPending' = chatPending - 1
    /\ UNCHANGED <<query, activeTab, highlightedNode, regimeMode, data, draftCitations, activeCitationId>>
    /\ UNCHANGED <<kgVars, draft, editorVars, auditVars, unusedVars>>

\* a /draft request whose DraftEditor has been unmounted
Orphaned(reqs) == [i \in DOMAIN reqs |-> [reqs[i] EXCEPT !.live = FALSE]]

\* the tab buttons: setActiveTab(t).  Leaving a tab unmounts its panel and
\* its state; the graph is mounted on the chat and audit tabs
setActiveTab(t) ==
    /\ ~crashed
    /\ t # activeTab
    /\ activeTab' = t
    /\ IF activeTab = "draft"
       THEN /\ facts' = <<>>
            /\ draft' = <<>>
            /\ isDrafting' = FALSE
            /\ draftError' = FALSE
            /\ draftPending' = Orphaned(draftPending)
       ELSE UNCHANGED <<facts, draft, isDrafting, draftError, draftPending>>
    /\ IF activeTab = "audit"
       THEN /\ auditFile' = FALSE
            /\ isAuditing' = FALSE
            /\ auditResult' = NoAuditResult
            /\ auditError' = FALSE
            /\ auditPending' = "none"
       ELSE UNCHANGED auditVars
    /\ KGCommit(t, data, highlightedNode, FALSE)
    /\ UNCHANGED <<chatVars, highlightedNode, regimeMode, data, draftCitations, activeCitationId>>
    /\ UNCHANGED <<draftIssued, unusedVars>>

\* handleFileChange: a document has been chosen
handleFileChange ==
    /\ ~crashed
    /\ activeTab = "audit"
    /\ auditFile' = TRUE
    /\ auditResult' = NoAuditResult
    /\ auditError' = FALSE
    /\ UNCHANGED <<isAuditing, auditPending>>
    /\ UNCHANGED <<chatVars, activeTab, highlightedNode, regimeMode, data, draftCitations,
                   activeCitationId>>
    /\ UNCHANGED <<kgVars, draft, editorVars, unusedVars>>

\* handleAudit up to its await; its button is shown when a file is set and
\* is disabled while isAuditing
handleAudit ==
    /\ ~crashed
    /\ activeTab = "audit"
    /\ auditFile
    /\ ~isAuditing
    /\ isAuditing' = TRUE
    /\ auditError' = FALSE
    /\ auditResult' = NoAuditResult
    /\ auditPending' = "sent"
    /\ UNCHANGED auditFile
    /\ UNCHANGED <<chatVars, activeTab, highlightedNode, regimeMode, data, draftCitations,
                   activeCitationId>>
    /\ UNCHANGED <<kgVars, draft, editorVars, unusedVars>>

\* handleAudit after its await: setResult(data).  The continuation of a
\* request whose panel was unmounted sets no state and is left out.
AuditResponse(res) ==
    /\ ~crashed
    /\ auditPending = "sent"
    /\ auditResult' = res
    /\ isAuditing' = FALSE
    /\ auditPending' = "none"
    /\ UNCHANGED <<auditFile, auditError>>
    /\ UNCHANGED <<chatVars, activeTab, highlightedNode, regimeMode, data, draftCitations,
                   activeCitationId>>
    /\ UNCHANGED <<kgVars, draft, editorVars, unusedVars>>

\* handleAudit after its await: the request failed, setError(err.message)
AuditFailure ==
    /\ ~crashed
    /\ auditPending = "sent"
    /\ auditError' = TRUE
    /\ isAuditing' = FALSE
    /\ auditPending' = "none"
    /\ UNCHANGED <<auditFile, auditResult>>
    /\ UNCHANGED <<chatVars, activeTab, highlightedNode, regimeMode, data, draftCitations,
                   activeCitationId>>
    /\ UNCHANGED <<kgVars, draft, editorVars, unusedVars>>

\* a finding is clicked: onCitationClick(finding.citation), that is
\* setHighlightedNode(citation); the effect runs when the value changes
ClickFinding(c) ==
    /\ ~crashed
    /\ activeTab = "audit"
    /\ auditResult # NoAuditResult
    /\ c \in Range(auditResult.findings)
    /\ highlightedNode' = c
    /\ KGCommit(activeTab, data, c, c # highlightedNode)
    /\ UNCHANGED <<chatVars, activeTab, regimeMode, data, draftCitations, activeCitationId>>
    /\ UNCHANGED <<draft, editorVars, auditVars, unusedVars>>

\* onChange of the facts textarea, disabled while isDrafting
setFacts(f) ==
    /\ ~crashed
    /\ activeTab = "draft"
    /\ ~isDrafting
    /\ facts' = f
    /\ UNCHANGED <<isDrafting, draftError, draftPending, draftIssued, draft>>
    /\ UNCHANGED <<chatVars, activeTab, highlightedNode, regimeMode, data, draftCitations,
                   activeCitationId>>
    /\ UNCHANGED <<kgVars, auditVars, unusedVars>>

\* handleDraft up to its await; its button is disabled while isDrafting or
\* when the facts are blank.  onDraftGenerated('', []) clears the page.
handleDraft ==
    /\ ~crashed
    /\ activeTab = "draft"
    /\ ~isDrafting
    /\ trim(facts) # <<>>
    /\ draftIssued < MaxDrafts
    /\ isDrafting' = TRUE
    /\ draftError' = FALSE
    /\ draft' = <<>>
    /\ draftCitations' = <<>>
    /\ activeCitationId' = Null
    /\ draftIssued' = draftIssued + 1
    /\ draftPending' = Append(draftPending, [seq |-> draftIssued + 1, live |-> TRUE])
    /\ UNCHANGED facts
    /\ UNCHANGED <<chatVars, activeTab, highlightedNode, regimeMode, data>>
    /\ UNCHANGED <<kgVars, auditVars, unusedVars>>

RemoveAt(seq, i) == SubSeq(seq, 1, i - 1) \o SubSeq(seq, i + 1, Len(seq))

\* handleDraft after its await, for the i-th request in flight: the state
\* setters act on a mounted editor only, onDraftGenerated acts on the page
DraftResponse(i, r) ==
    /\ ~crashed
    /\ i \in DOMAIN draftPending
    /\ IF draftPending[i].live
       THEN /\ draft' = r.answer
            /\ isDrafting' = FALSE
       ELSE UNCHANGED <<draft, isDrafting>>
    /\ draftCitations' = IF r.hasCitations THEN r.citations ELSE <<>>
    /\ activeCitationId' = Null
    /\ draftPending' = RemoveAt(draftPending, i)
    /\ UNCHANGED <<facts, draftError, draftIssued>>
    /\ UNCHANGED <<chatVars, activeTab, highlightedNode, regimeMode, data>>
    /\ UNCHANGED <<kgVars, auditVars, unusedVars>>

\* a handleDraft without its finally block: the failure leaves isDrafting set
DraftFailureStaysBusy(i) ==
    /\ ~crashed
    /\ i \in DOMAIN draftPending
    /\ IF draftPending[i].live
       THEN draftError' = TRUE
       ELSE UNCHANGED draftError
    /\ draftPending' = RemoveAt(draftPending, i)
    /\ UNCHANGED <<facts, draft, draftIssued, isDrafting>>
    /\ UNCHANGED <<chatVars, activeTab, highlightedNode, regimeMode, data, draftCitations,
                   activeCitationId>>
    /\ UNCHANGED <<kgVars, auditVars, unusedVars>>

\* handleDraft after its await: fetch threw or the response was not ok
DraftFailure(i) ==
    /\ ~crashed
    /\ i \in DOMAIN draftPending
    /\ IF draftPending[i].live
       THEN /\ draftError' = TRUE
            /\ isDrafting' = FALSE
       ELSE UNCHANGED <<draftError, isDrafting>>
    /\ draftPending' = RemoveAt(draftPending, i)
    /\ UNCHANGED <<facts, draft, draftIssued>>
    /\ UNCHANGED <<chatVars, activeTab, highlightedNode, regimeMode, data, draftCitations,
                   activeCitationId>>
    /\ UNCHANGED <<kgVars, auditVars, unusedVars>>

\* the destinations of the inline links [label](destination) of a markdown
\* text: the label holds no bracket, so that a link around a link is none,
\* and the destination holds no space and no parenthesis
MarkdownHrefs(s) ==
    LET LabelEnds ==
            { p \in 2..(Len(s) - 1) :
                /\ s[p] = "]"
                /\ s[p + 1] = "("
                /\ \E o \in 1..(p - 1) :
                      /\ s[o] = "["
                      /\ \A k \in (o + 1)..(p - 1) : s[k] \notin {"[", "]"} }
        Closes(p) ==
            { q \in (p + 3)..Len(s) :
                /\ s[q] = ")"
                /\ \A k \in (p + 2)..(q - 1) : s[k] \notin {"(", ")", " "} }
    IN  UNION { { SubSeq(s, p + 2, q - 1) : q \in Closes(p) } : p \in LabelEnds }

\* the hrefs of the links that ReactMarkdown renders from the processed
\* text: the links of the resolver and the links the draft came with
RenderedHrefs(d, cs) == MarkdownHrefs(getProcessedText(d, cs))

\* a link of the draft is clicked.  The a renderer makes a span with
\* onClick={() => onCitationClick(href)} when href.length > 30, that is
\* setActiveCitationId(href); any other link is a plain anchor, and the
\* browser leaves the page for its href
ClickSpan(href) ==
    /\ ~crashed
    /\ activeTab = "draft"
    /\ ~draftError
    /\ draft # <<>>
    /\ href \in RenderedHrefs(draft, draftCitations)
    /\ IF Len(href) > 30
       THEN /\ activeCitationId' = href
            /\ crashed' = crashed
       ELSE /\ activeCitationId' = activeCitationId
            /\ crashed' = TRUE
    /\ UNCHANGED <<mounted, hoveredNode, fgRef, fgData, layout, camera>>
    /\ UNCHANGED <<chatVars, activeTab, highlightedNode, regimeMode, data, draftCitations>>
    /\ UNCHANGED <<draft, editorVars, auditVars, unusedVars>>

\* the dynamically imported ForceGraph2D has rendered: the ref is attached
ForceGraphLoaded ==
    /\ ~crashed
    /\ mounted
    /\ ~fgRef
    /\ fgRef' = TRUE
    /\ UNCHANGED <<mounted, hoveredNode, fgData, layout, camera, crashed>>
    /\ UNCHANGED <<chatVars, activeTab, highlightedNode, regimeMode, data, draftCitations,
                   activeCitationId>>
    /\ UNCHANGED <<draft, editorVars, auditVars, unusedVars>>

\* the layout engine advances the nodes between two frames: it writes x
\* and y on the objects of graphData.nodes, the ones ForceGraph2D was given
LayoutTick ==
    /\ ~crashed
    /\ mounted
    /\ layout # EngineLayout(fgData)
    /\ layout' = EngineLayout(fgData)
    /\ UNCHANGED <<mounted, hoveredNode, fgData, fgRef, camera, crashed>>
    /\ UNCHANGED <<chatVars, activeTab, highlightedNode, regimeMode, data, draftCitations,
                   activeCitationId>>
    /\ UNCHANGED <<draft, editorVars, auditVars, unusedVars>>

\* the 1000 ms of centerAt have passed
CenterAtDone ==
    /\ ~crashed
    /\ camera.centerAt = "animating"
    /\ camera' = [camera EXCEPT !.centerAt = "idle"]
    /\ UNCHANGED <<mounted, hoveredNode, fgData, layout, fgRef, crashed>>
    /\ UNCHANGED <<chatVars, activeTab, highlightedNode, regimeMode, data, draftCitations,
                   activeCitationId>>
    /\ UNCHANGED <<draft, editorVars, auditVars, unusedVars>>

\* the 2000 ms of zoom have passed, after the 1000 ms of centerAt
ZoomDone ==
    /\ ~crashed
    /\ camera.zoom = "animating"
    /\ camera.centerAt = "idle"
    /\ camera' = [camera EXCEPT !.zoom = "idle"]
    /\ UNCHANGED <<mounted, hoveredNode, fgData, layout, fgRef, crashed>>
    /\ UNCHANGED <<chatVars, activeTab, highlightedNode, regimeMode, data, draftCitations,
                   activeCitationId>>
    /\ UNCHANGED <<draft, editorVars, auditVars, unusedVars>>

\* the steps of the page; the regime toggle, which only the painter reads,
\* is taken by SpecGraph
Next ==
    \/ \E q \in QueryTexts : setQuery(q)
    \/ handleSubmit
    \/ \E r \in ChatResponses : ChatResponse(r)
    \/ ChatFailure
    \/ \E t \in {"chat", "audit", "draft"} : setActiveTab(t)
    \/ handleFileChange
    \/ handleAudit
    \/ \E res \in AuditResults : AuditResponse(res)
    \/ AuditFailure
    \/ \E c \in FindingCitations : ClickFinding(c)
    \/ \E f \in FactsTexts : setFacts(f)
    \/ handleDraft
    \/ \E i \in 1..MaxDrafts, r \in DraftResponses : DraftResponse(i, r)
    \/ \E i \in 1..MaxDrafts : DraftFailure(i)
    \/ \E href \in ClickableHrefs : ClickSpan(href)
    \/ ForceGraphLoaded
    \/ LayoutTick
    \/ CenterAtDone
    \/ ZoomDone

Spec == Init /\ [][Next]_vars

\* the external service answers a pending /ask, /draft or /audit request, or
\* the request fails
ChatAnswers == (\E r \in ChatResponses : ChatResponse(r)) \/ ChatFailure

DraftAnswers ==
    \/ \E i \in 1..MaxDrafts, r \in DraftResponses : DraftResponse(i, r)
    \/ \E i \in 1..MaxDrafts : DraftFailure(i)

AuditAnswers == (\E res \in AuditResults : AuditResponse(res)) \/ AuditFailure

\* the steps of the three request handlers and of what enables them or
\* unmounts their panels; the steps left out (finding and link clicks, the
\* camera, the layout engine) touch no busy flag and no pending request
RequestNext ==
    \/ \E q \in QueryTexts : setQuery(q)
    \/ handleSubmit
    \/ \E r \in ChatResponses : ChatResponse(r)
    \/ ChatFailure
    \/ \E t \in {"chat", "audit", "draft"} : setActiveTab(t)
    \/ handleFileChange
    \/ handleAudit
    \/ \E res \in AuditResults : AuditResponse(res)
    \/ AuditFailure
    \/ \E f \in FactsTexts : setFacts(f)
    \/ handleDraft
    \/ \E i \in 1..MaxDrafts, r \in DraftResponses : DraftResponse(i, r)
    \/ \E i \in 1..MaxDrafts : DraftFailure(i)

\* the requests of the page with a service that eventually answers or fails
\* every request
SpecFair ==
    /\ Init
    /\ [][RequestNext]_vars
    /\ WF_vars(ChatAnswers)
    /\ WF_vars(DraftAnswers)
    /\ WF_vars(AuditAnswers)

(***************************************************************************)
(* Properties of the resolver.                                             *)
(***************************************************************************)
\* the citations that citations.forEach has visited
Visited == SubSeq(citations, 1, ci - 1)

\* the uuid of the first citation of cs that carries name
FirstUuid(cs, name) ==
    cs[CHOOSE i \in DOMAIN cs :
          /\ cs[i].entity_name = name
          /\ \A j \in 1..(i - 1) : cs[j].entity_name # name].uuid

\* C1: the entity map holds each non-empty entity_name at most once, each
\* key maps to the uuid of the first citation in input order that carries
\* the name, and a citation without a name or with an empty one adds no key.
C1_EntityMapFirstWins ==
    /\ \A i, j \in DOMAIN uniqueMap : uniqueMap[i].key = uniqueMap[j].key => i = j
    /\ \A i \in DOMAIN uniqueMap :
          /\ Truthy(uniqueMap[i].key)
          /\ \E k \in DOMAIN Visited : Visited[k].entity_name = uniqueMap[i].key
          /\ uniqueMap[i].value = FirstUuid(Visited, uniqueMap[i].key)
    /\ \A k \in DOMAIN Visited :
          Truthy(Visited[k].entity_name) => MapHas(uniqueMap, Visited[k].entity_name)

\* two citations share a name and the whole list has been visited
C1_Witness ==
    /\ rpc = "replace"
    /\ Len(citations) = 2
    /\ Truthy(citations[1].entity_name)
    /\ citations[1].entity_name = citations[2].entity_name
    /\ citations[1].uuid # citations[2].uuid
    /\ Len(uniqueMap) = 1

ProperSubstring(a, b) == Len(a) < Len(b) /\ includes(b, a)

\* the scenario's expected result:
\* 'Under the [Indian Contract Act](u1), the [Act](u2) applies.'
ScenarioExpected ==
    Flatten(<< <<"U","n","d","e","r">>, Sp, <<"t","h","e">>, Sp,
               LinkOf(IndianContractAct, Uuid(1)),
               <<",">>, Sp, <<"t","h","e">>, Sp, LinkOf(Act, Uuid(2)), Sp,
               <<"a","p","p","l","i","e","s",".">> >>)

\* C2: for names A, B with A a proper substring of B, the result has no
\* link for A inside the label of a link for B; in the scenario only the
\* standalone Act is linked to u2.
C2_NoLinkInsideLongerName ==
    rpc = "done" /\ draft # <<>> =>
        /\ \A i, j \in DOMAIN uniqueMap :
              LET A == uniqueMap[i].key
                  B == uniqueMap[j].key
              IN  ProperSubstring(A, B) =>
                    \A p \in 1..Len(B) :
                        OccursAt(B, A, p) =>
                            ~includes(processed,
                                      <<"[">> \o SubSeq(B, 1, p - 1)
                                              \o LinkOf(A, uniqueMap[i].value))
        /\ (draft = ScenarioText /\ citations = ScenarioCitations
               => processed = ScenarioExpected)

\* an occurrence of name at p with no word character on either side
WholeWordAt(s, name, p) ==
    /\ OccursAt(s, name, p)
    /\ ~IsWordAt(s, p - 1)
    /\ ~IsWordAt(s, p + Len(name))

OccursAsWholeWord(s, name) == \E p \in 1..Len(s) : WholeWordAt(s, name, p)

\* C3: when no entity name of the citation list occurs as a whole word in
\* the draft, getProcessedText returns the draft unchanged.
C3_NoMatchUnchanged ==
    (/\ rpc = "done"
     /\ \A i \in DOMAIN citations :
            Truthy(citations[i].entity_name)
                => ~OccursAsWholeWord(draft, citations[i].entity_name))
        => processed = draft

\* s with the whole-word occurrences of name, left to right, rewritten to
\* [name](uuid) and every other character kept
RECURSIVE RewriteWholeWords(_, _, _, _)
RewriteWholeWords(s, name, uuid, p) ==
    IF p > Len(s) THEN <<>>
    ELSE IF WholeWordAt(s, name, p)
         THEN LinkOf(name, uuid) \o RewriteWholeWords(s, name, uuid, p + Len(name))
    ELSE <<s[p]>> \o RewriteWholeWords(s, name, uuid, p + 1)

\* C4: one replacement step rewrites exactly the occurrences of the name
\* that have no word character immediately before or after them, whatever
\* the first and last character of the name, and keeps the rest of the text.
C4_StepRewritesWholeWords ==
    [][ReplaceStep =>
          text' = RewriteWholeWords(text, entities[ei],
                                    MapGet(uniqueMap, entities[ei]), 1)]_vars

(***************************************************************************)
(* Properties of the classifier and of the painter.                        *)
(***************************************************************************)
\* a case-insensitive substring test, both sides folded character by character
ContainsIgnoringCase(s, t) ==
    \E p \in 1..(Len(s) + 1) :
        /\ p + Len(t) - 1 <= Len(s)
        /\ \A i \in 1..Len(t) : LowerChar(s[p + i - 1]) = LowerChar(t[i])

HasLawTerm(l) == \E t \in LawTerms : ContainsIgnoringCase(l, t)

HasSectionTerm(l) == \E t \in SectionTerms : ContainsIgnoringCase(l, t)

HasCaseTerm(l) == \E t \in CaseTerms : ContainsIgnoringCase(l, t)

\* C5: the classifier gives every label exactly one of the four types, by
\* case-insensitive substring tests in a fixed order: a law term gives law;
\* else a section term gives section; else ' v. ' or ' vs ' gives case;
\* else concept.
C5_ClassifierRuleOrder ==
    \A i \in DOMAIN fgData.nodes :
        LET l == data.nodes[i].label
            ty == fgData.nodes[i].type
        IN  /\ ty \in {"law", "section", "case", "concept"}
            /\ HasLawTerm(l) => ty = "law"
            /\ ~HasLawTerm(l) /\ HasSectionTerm(l) => ty = "section"
            /\ ~HasLawTerm(l) /\ ~HasSectionTerm(l) /\ HasCaseTerm(l) => ty = "case"
            /\ ~HasLawTerm(l) /\ ~HasSectionTerm(l) /\ ~HasCaseTerm(l) => ty = "concept"

\* a label with ' v. ' between two words and no law or section term is a case
C5_Witness ==
    /\ mounted
    /\ Len(fgData.nodes) = 1
    /\ data.nodes[1].label = <<"x"," ","v","."," ">>
    /\ fgData.nodes[1].type = "case"

\* the label belongs to the naming convention of the regime other than mode,
\* by case-insensitive substring tests
OtherRegimeLabel(mode, l) ==
    \/ /\ mode = "IPC"
       /\ \/ ContainsIgnoringCase(l, <<"b","n","s">>)
          \/ ContainsIgnoringCase(l, <<"b","h","a","r","a","t","i","y","a">>)
    \/ /\ mode = "BNS"
       /\ ContainsIgnoringCase(l, <<"i","p","c">>)

\* C6: in IPC or BNS mode a node whose label is of the other regime, by the
\* case-insensitive rules of the classifier, is painted with opacity at most
\* 0.15 and every other node with opacity 1.0; in Compare mode every node is
\* painted with opacity 1.0.  (The hovered node, always shown in full, aside.)
C6_OtherRegimeDimmed ==
    \A i \in DOMAIN frame.paints :
        frame.hovered # fgData.nodes[i].id =>
            IF frame.regimeMode \in {"IPC", "BNS"}
               /\ OtherRegimeLabel(frame.regimeMode, fgData.nodes[i].name)
            THEN frame.paints[i].alpha <= 15
            ELSE frame.paints[i].alpha = 100

(***************************************************************************)
(* Properties of the page.                                                 *)
(***************************************************************************)
\* the ids of the nodes of a graph
NodeIds(g) == { g.nodes[i].id : i \in DOMAIN g.nodes }

\* C7: every edge of a payload whose source or target is not the id of a
\* node of the same payload is absent from the graph handed to the renderer:
\* every link of the rendered graph joins two of its nodes.
C7_DanglingEdgesDropped ==
    mounted =>
        \A i \in DOMAIN fgData.links :
            /\ fgData.links[i].source \in NodeIds(fgData)
            /\ fgData.links[i].target \in NodeIds(fgData)

\* a payload with a node that has no id or no label
Malformed(g) ==
    \E i \in DOMAIN g.nodes : g.nodes[i].id = Undefined \/ g.nodes[i].label = Undefined

\* C8: a response whose graph payload has a node without id or without
\* label is rejected whole: the graph kept by the page and the graph on
\* screen stay the previous ones, and nothing of the payload is rendered.
C8_MalformedPayloadRejected ==
    [][\A r \in ChatResponses :
          (ChatResponse(r) /\ r.graph_data # NullGraph /\ Malformed(r.graph_data))
              => /\ data' = data
                 /\ fgData' = fgData
                 /\ mounted' = mounted
                 /\ crashed' = crashed]_vars

\* C9: the response to a request that a newer request has superseded is
\* discarded: it does not overwrite the citations of the page.
C9_StaleResponseDiscarded ==
    [][\A i \in 1..MaxDrafts : \A r \in DraftResponses :
          (/\ i \in DOMAIN draftPending
           /\ draftPending[i].seq < draftIssued
           /\ DraftResponse(i, r))
              => /\ draftCitations' = draftCitations
                 /\ draft' = draft]_vars

\* C10: when a render leaves a focus request whose identifier matches no
\* node of the graph, no camera call is made: no animation is started, the
\* target of the camera is unchanged and no error is raised.
C10_MissingFocusIsNoOp ==
    [][(/\ JsTruthy(highlightedNode')
        /\ mounted'
        /\ highlightedNode' \notin NodeIds(data'))
           => /\ camera'.target = camera.target
              /\ camera'.centerAt = "animating" => camera.centerAt = "animating"
              /\ camera'.zoom = "animating" => camera.zoom = "animating"
              /\ crashed' = crashed]_vars

\* a finding whose citation is no node of the graph has been clicked while
\* the graph was on screen with its ref attached: the camera is at rest
C10_Witness ==
    /\ activeTab = "audit"
    /\ mounted
    /\ fgRef
    /\ highlightedNode = Id9
    /\ highlightedNode \notin NodeIds(data)
    /\ camera = IdleCamera
    /\ ~crashed


\* the node a focus request for X is to locate: its citation_uuid or its id is X
FocusTargets(d, X) ==
    { i \in DOMAIN d.nodes : d.nodes[i].citation_uuid = X \/ d.nodes[i].id = X }

\* the focus request of a step: a finding with another citation is clicked
\* while the graph is on screen with its ref attached
FocusRequest(c) ==
    /\ mounted
    /\ fgRef
    /\ c # highlightedNode
    /\ ClickFinding(c)

\* C11: a focus request for X locates the node whose citation_uuid or whose
\* id equals X and starts centering on it, also when X is the citation_uuid
\* of a node and the id of none.
C11_FocusFindsCitationUuid ==
    [][\A c \in FindingCitations :
          (FocusRequest(c) /\ FocusTargets(data, c) # {})
              => /\ camera'.centerAt = "animating"
                 /\ \E i \in FocusTargets(data, c) :
                       camera'.target = <<data.nodes[i].x, data.nodes[i].y>>]_vars

\* C12: the viewport is Idle, Centering or Zooming, in that order: the zoom
\* animation runs only when the centering animation has completed, never at
\* the same time.
C12_ZoomAfterCentering ==
    ~(camera.centerAt = "animating" /\ camera.zoom = "animating")

\* C13: a focus request that arrives while an animation is running restarts
\* the sequence from Centering against the new target: centering on the new
\* target runs and no zoom runs until it has completed.
C13_RefocusRestartsFromCentering ==
    [][\A c \in FindingCitations :
          (/\ camera.centerAt = "animating" \/ camera.zoom = "animating"
           /\ FocusRequest(c)
           /\ c \in NodeIds(data))
              => /\ camera'.centerAt = "animating"
                 /\ camera'.target = <<FindNode(data, c).x, FindNode(data, c).y>>
                 /\ camera'.zoom = "idle"]_vars


\* C14: clicking the rendered span of a link [name](uuid) of the resolver,
\* whatever the length of the uuid, publishes exactly that uuid to the
\* shared active-citation state, the state that a click on a graph node
\* writes.
C14_SpanClickPublishesUuid ==
    [][\A href \in {Uuid(1), LongUuid} :
          ClickSpan(href) => /\ activeNodeId' = href
                             /\ crashed' = crashed]_vars


\* C15: regimeMode starts as Compare and is in every reachable state one of
\* exactly three values, IPC, BNS or Compare, whatever is toggled or done.
C15_RegimeModeOneOfThree ==
    /\ regimeMode = "Compare"
    /\ [](regimeMode \in {"IPC", "BNS", "Compare"})

\* the regime has been toggled twice, a frame painted in between
C15_Witness ==
    /\ mounted
    /\ frame.regimeMode = "IPC"
    /\ frame.paints # <<>>
    /\ regimeMode = "BNS"


\* node.metadata?.tooltip and node.metadata?.is_cited of a payload node
MetadataTooltip(node) == IF node.metadata = NoMetadata THEN Undefined ELSE node.metadata.tooltip

MetadataIsCited(node) == IF node.metadata = NoMetadata THEN Undefined ELSE node.metadata.is_cited

\* C16: for every node of the graph handed to the renderer the type is the
\* classifier's result on the label, whatever type the payload supplied, and
\* citationUuid, tooltip and isCited are the payload's citation_uuid,
\* metadata.tooltip and metadata.is_cited unchanged.
C16_TypeDerivedFieldsPassedThrough ==
    mounted =>
        /\ DOMAIN fgData.nodes = DOMAIN data.nodes
        /\ \A i \in DOMAIN data.nodes :
              /\ fgData.nodes[i].type = getNodeType(data.nodes[i].label)
              /\ fgData.nodes[i].citationUuid = data.nodes[i].citation_uuid
              /\ fgData.nodes[i].tooltip = MetadataTooltip(data.nodes[i])
              /\ fgData.nodes[i].isCited = MetadataIsCited(data.nodes[i])

\* a payload node that calls itself a law, with a tooltip and cited, has
\* been handed over as a concept with the tooltip and the flag
C16_Witness ==
    /\ mounted
    /\ data.nodes[1].type = "law"
    /\ fgData.nodes[1].type = "concept"
    /\ fgData.nodes[1].tooltip = Tooltip1
    /\ fgData.nodes[1].isCited = True


\* C17: a failure while drawing one node is caught and that node is skipped:
\* the frame completes and every node whose drawing does not fail is drawn
\* in that frame.
C17_NodeFailureSkipped ==
    frame # NoFrame =>
        /\ ~frame.threw
        /\ \A i \in DOMAIN fgData.nodes :
              ~PaintThrows(fgData.nodes[i], frame.hovered) => i \in DOMAIN frame.paints


\* C18: the hovered node does not survive the replacement of the graph:
\* immediately after a new payload has replaced it the hovered node is none.
C18_HoverClearedOnReplacement ==
    [][data' # data => hoveredNode' = Null]_vars


\* the scenario's actual result:
\* 'Under the [Indian Contract [Act](u2)](u1), the [Act](u2) applies.'
ScenarioNested ==
    Flatten(<< <<"U","n","d","e","r">>, Sp, <<"t","h","e">>, Sp,
               <<"[">>, <<"I","n","d","i","a","n">>, Sp,
               <<"C","o","n","t","r","a","c","t">>, Sp, LinkOf(Act, Uuid(2)),
               <<"]", "(">>, Uuid(1), <<")">>,
               <<",">>, Sp, <<"t","h","e">>, Sp, LinkOf(Act, Uuid(2)), Sp,
               <<"a","p","p","l","i","e","s",".">> >>)

\* the leftmost whole-word occurrence of name in s
FirstWholeWord(s, name) ==
    CHOOSE p \in 1..Len(s) :
        /\ WholeWordAt(s, name, p)
        /\ \A q \in 1..(p - 1) : ~WholeWordAt(s, name, q)

\* C19: a later, shorter name re-matches inside the label of a link that an
\* earlier step inserted and wraps it a second time: when the step of a name
\* A runs on a text that holds the link of a longer name B with A a whole
\* word inside B, the text after the step holds a link of A inside the label
\* of B's link; the scenario's output is such a text.
C19_ShorterNameNestsLink ==
    /\ [](rpc = "done" /\ draft = ScenarioText /\ citations = ScenarioCitations
             => processed = ScenarioNested)
    /\ [][(rpc = "replace" /\ ei' = ei + 1) =>
            \A j \in 1..(ei - 1) :
                LET A == entities[ei]
                    B == entities[j]
                IN  (/\ Len(A) < Len(B)
                     /\ OccursAsWholeWord(B, A)
                     /\ includes(text, LinkOf(B, MapGet(uniqueMap, B))))
                    => includes(text',
                                <<"[">> \o SubSeq(B, 1, FirstWholeWord(B, A) - 1)
                                        \o LinkOf(A, MapGet(uniqueMap, A)))]_vars

\* the scenario has been resolved and its output holds the link of Act
\* inside the label of the link of Indian Contract Act
C19_Witness ==
    /\ rpc = "done"
    /\ draft = ScenarioText
    /\ citations = ScenarioCitations
    /\ includes(processed,
                <<"[">> \o SubSeq(IndianContractAct, 1, Len(IndianContractAct) - Len(Act))
                        \o LinkOf(Act, Uuid(2)) \o <<"]", "(">> \o Uuid(1))

\* the index of the first citation that carries name
FirstSeen(cs, name) ==
    CHOOSE i \in DOMAIN cs :
        /\ cs[i].entity_name = name
        /\ \A k \in 1..(i - 1) : cs[k].entity_name # name

\* C20: the names are processed longest first, and names of equal length in
\* the order in which the citation list first shows them: once sorted,
\* entities holds every distinct name once, never a longer name after a
\* shorter one, and of two names of one length the first seen comes first.
C20_LongestFirstTiesFirstSeen ==
    rpc \in {"replace", "done"} /\ draft # <<>> =>
        /\ Len(entities) = Len(uniqueMap)
        /\ \A i \in DOMAIN citations :
              Truthy(citations[i].entity_name) =>
                  \E k \in DOMAIN entities : entities[k] = citations[i].entity_name
        /\ \A k, l \in DOMAIN entities :
              k < l =>
                  /\ entities[k] # entities[l]
                  /\ Len(entities[k]) >= Len(entities[l])
                  /\ Len(entities[k]) = Len(entities[l]) =>
                        FirstSeen(citations, entities[k]) < FirstSeen(citations, entities[l])

\* two names of one length, the one seen first standing later in the text;
\* the first seen has been replaced and the other has not
C20_Witness ==
    /\ rpc = "replace"
    /\ ei = 2
    /\ Len(entities) = 2
    /\ Len(entities[1]) = Len(entities[2])
    /\ entities[1] = citations[1].entity_name
    /\ \E p, q \in 1..Len(draft) :
          /\ p < q
          /\ WholeWordAt(draft, entities[2], p)
          /\ WholeWordAt(draft, entities[1], q)
    /\ includes(text, LinkOf(entities[1], citations[1].uuid))


\* the colour of the type that the classifier's rules give a label
ClassifiedColour(l) ==
    IF HasLawTerm(l) THEN "#2563eb"
    ELSE IF HasSectionTerm(l) THEN "#dc2626"
    ELSE IF HasCaseTerm(l) THEN "#7c3aed"
    ELSE "#16a34a"

HighlightColour == "#f59e0b"

\* C21: in every frame the hovered node is drawn at full opacity and in the
\* highlight colour, not in its classified colour, whatever the regime filter
\* and whatever its label; a node that is not hovered is drawn in the colour
\* of its classified type.
C21_HoveredNodeFullAndHighlighted ==
    \A i \in DOMAIN frame.paints :
        IF frame.hovered = fgData.nodes[i].id
        THEN /\ frame.paints[i].alpha = 100
             /\ frame.paints[i].fillStyle = HighlightColour
             /\ frame.paints[i].fillStyle # ClassifiedColour(data.nodes[i].label)
        ELSE frame.paints[i].fillStyle = ClassifiedColour(data.nodes[i].label)

\* a frame in IPC mode with the pointer on a BNS node, which the filter
\* would dim, next to a node that is not hovered
C21_Witness ==
    /\ mounted
    /\ frame.regimeMode = "IPC"
    /\ Len(frame.paints) = 2
    /\ frame.hovered = fgData.nodes[1].id
    /\ includes(fgData.nodes[1].name, <<"B","N","S">>)
    /\ frame.paints[1].alpha = 100
    /\ frame.paints[1].fillStyle = HighlightColour
    /\ frame.paints[2].fillStyle = "#16a34a"


\* C22: every node with isCited = true gets a low-opacity stroke ring in the
\* node's base (classified) colour, the same colour whether or not the node
\* is hovered; a node that is not cited gets no ring.
C22_CitedRingInBaseColour ==
    \A i \in DOMAIN frame.paints :
        IF fgData.nodes[i].isCited = True
        THEN /\ frame.paints[i].halo.strokeStyle = ClassifiedColour(data.nodes[i].label)
             /\ frame.paints[i].halo.alpha <= 20
        ELSE frame.paints[i].halo.strokeStyle = "none"


\* C23: every edge whose relation is EQUIVALENT_TO is rendered dashed, in the
\* distinct colour and with the greater width, whether or not the edge has a
\* label of its own; every edge with another relation is rendered solid, in
\* the neutral colour, at the default width.
C23_EquivalenceEdgeDashed ==
    \A i \in DOMAIN frame.links :
        IF data.edges[i].relation = EquivalentTo
        THEN /\ frame.links[i].dash # <<>>
             /\ frame.links[i].color = "#EAB308"
             /\ frame.links[i].width = 2
        ELSE /\ frame.links[i].dash = <<>>
             /\ frame.links[i].color = "#94a3b8"
             /\ frame.links[i].width = 1


TooltipOps == { k \in DOMAIN frame.ops : frame.ops[k].op = "tooltip" }

\* C24: within a frame the hover tooltip is drawn last, after every node and
\* every edge of the graph, whatever the place of the hovered node in the
\* node list: nothing is drawn in the frame after the tooltip.
C24_TooltipDrawnLast ==
    \A k \in TooltipOps : k = Len(frame.ops)


\* C25: when a focus request finds its node, the camera is centred on the
\* position that the layout engine holds for that node in the rendered graph
\* at the moment of the request.
C25_CentredOnCurrentPosition ==
    [][\A c \in FindingCitations :
          (FocusRequest(c) /\ c \in NodeIds(data) /\ layout = EngineLayout(fgData))
              => \E i \in DOMAIN fgData.nodes :
                    /\ fgData.nodes[i].id = c
                    /\ camera'.centerAt = "animating"
                    /\ camera'.target = layout[i]]_vars


\* the citation list that onDraftGenerated receives from a response
CitationsOf(r) == IF r.hasCitations THEN r.citations ELSE <<>>

\* C26: on the Legal Drafter tab the citation list of the page, shown in the
\* Research Vault, comes from the same /draft response as the draft text on
\* display, or both are empty; and the response to a request issued by an
\* earlier, unmounted DraftEditor does not change the citations.
C26_CitationsFromDisplayedDraft ==
    /\ []((activeTab = "draft" /\ ~crashed) =>
             \/ draft = <<>> /\ draftCitations = <<>>
             \/ \E r \in DraftResponses :
                   draft = r.answer /\ draftCitations = CitationsOf(r))
    /\ [][\A i \in 1..MaxDrafts : \A r \in DraftResponses :
             (/\ i \in DOMAIN draftPending
              /\ ~draftPending[i].live
              /\ DraftResponse(i, r))
                 => draftCitations' = draftCitations]_vars


\* the uuids of a citation list
Uuids(cs) == { cs[i].uuid : i \in DOMAIN cs }

\* C27: activeCitationId of the page is always null or the uuid of a citation
\* of the current draft citation list: it is reset to null whenever the list
\* is replaced, and a click in the rendered draft sets it only to a uuid of
\* that list.
C27_ActiveCitationInList ==
    /\ [](activeCitationId = Null \/ activeCitationId \in Uuids(draftCitations))
    /\ [][draftCitations' # draftCitations => activeCitationId' = Null]_vars
    /\ [][\A href \in ClickableHrefs :
             (ClickSpan(href) /\ activeCitationId' # activeCitationId)
                 => activeCitationId' \in Uuids(draftCitations)]_vars


\* C29: a camera animation starts only in response to a focus request: when
\* a response replaces the graph on screen while the focused node id stays
\* what it was, no animation starts and the viewport stays Idle.
C29_ReplacementStartsNoAnimation ==
    [][\A r \in ChatResponses :
          (/\ ChatResponse(r)
           /\ r.graph_data # NullGraph
           /\ mounted
           /\ highlightedNode' = highlightedNode
           /\ camera.centerAt = "idle"
           /\ camera.zoom = "idle")
              => /\ camera'.centerAt = "idle"
                 /\ camera'.zoom = "idle"]_vars


\* C30: when a chat request fails, the graph on screen is left as it was and
\* exactly one assistant error message is appended to the chat, after the
\* user's message; a successful response without graph_data leaves the
\* previous graph in place too.
C30_ChatFailureKeepsGraph ==
    /\ [][ChatFailure =>
             /\ data' = data
             /\ fgData' = fgData
             /\ mounted' = mounted
             /\ chatMessages # <<>>
             /\ chatMessages[Len(chatMessages)].role = "user"
             /\ Len(chatMessages') = Len(chatMessages) + 1
             /\ SubSeq(chatMessages', 1, Len(chatMessages)) = chatMessages
             /\ chatMessages'[Len(chatMessages')] =
                    [role |-> "assistant", content |-> SorryText]]_vars
    /\ [][\A r \in { a \in ChatResponses : a.graph_data = NullGraph } :
             ChatResponse(r)
                 => /\ data' = data
                    /\ fgData' = fgData
                    /\ mounted' = mounted]_vars

\* a first request has put a graph on screen, a second one has failed: the
\* graph is still there and the chat ends with the error message
C30_Witness ==
    /\ ~crashed
    /\ Len(chatMessages) = 4
    /\ chatMessages[3].role = "user"
    /\ chatMessages[4] = [role |-> "assistant", content |-> SorryText]
    /\ chatPending = 0
    /\ ~isLoading
    /\ mounted
    /\ data = GraphValid
    /\ fgData = TransformGraph(GraphValid)


\* C28: every submitted request eventually clears its busy flag: once
\* handleSubmit, handleDraft or handleAudit has set isLoading, isDrafting or
\* isAuditing, the flag is eventually false again, on the success path and
\* on every failure path, for as long as there is a page to show it.
C28_BusyFlagEventuallyCleared ==
    /\ isLoading ~> (~isLoading \/ crashed)
    /\ isDrafting ~> (~isDrafting \/ crashed)
    /\ isAuditing ~> (~isAuditing \/ crashed)


\* a chat request and a draft request have both failed, and both flags are
\* false again
C28_Witness ==
    /\ ~crashed
    /\ activeTab = "draft"
    /\ chatMessages # <<>>
    /\ chatMessages[Len(chatMessages)].content = SorryText
    /\ chatPending = 0
    /\ ~isLoading
    /\ draftIssued = 1
    /\ draftPending = <<>>
    /\ draftError
    /\ ~isDrafting

====
